---- MODULE Spec2Model ----
(***************************************************************************)
(* Model of CSpxUspTtsEngineAdapter                                        *)
(* (source/core/tts_usp/usp_tts_engine_adapter.cpp).                       *)
(*                                                                         *)
(* Two threads share the adapter: the caller thread, which runs Speak, and *)
(* the delivery thread of the USP connection, which runs the On...         *)
(* callbacks.  Each callback that takes m_mutex is one atomic action.      *)
(* Speak is cut where the delivery thread can interleave: entry,           *)
(* EnsureUspConnection, the unlocked reset and sends, and the condition    *)
(* wait.  Time is counted in whole minutes.                                *)
(***************************************************************************)
EXTENDS Integers, Sequences, FiniteSets, TLC

(* ---------------------------- bounds ---------------------------------- *)

\* most bytes the model lets m_currentReceivedData hold
MaxAudio == 2
\* minutes past the reconnect threshold the model lets a connection age
MaxOverAge == 1
\* request identifiers the caller draws from: 1..MaxRequestId
MaxRequestId == 1

(* ------------------------ program constants --------------------------- *)

\* (uint64_t)9 * 60 * 1000 * 10000 ticks of 100 ns: nine minutes
ReconnectMinutes == 9
\* std::string::npos, the "not found" result of find
NPOS == -1

(* ------------------------------ inputs -------------------------------- *)

UspStates == {"Idle", "Sending", "Receiving", "Error"}

\* The eight USP::ErrorCode values the table names.
MappedUspErrorCodes ==
    {"AuthenticationError", "BadRequest", "ConnectionError", "Forbidden",
     "RuntimeError", "ServiceError", "ServiceUnavailable", "TooManyRequests"}

\* static_cast<USP::ErrorCode>(0), the value Speak resets the code to.
ZeroErrorCode == "Zero"

\* Every code an error event may carry: the eight, the zero value and one
\* code the table does not name.
UspErrorCodes == MappedUspErrorCodes \cup {ZeroErrorCode, "Unlisted"}

\* The code of the error events delivered in any order.
AnyOrderErrorCodes == {"ServiceError"}

\* Payloads of audio chunk events: empty, one byte, two bytes.
Chunks == {<<>>, <<1>>, <<2>>, <<2, 1>>}

\* Payloads of the audio chunk events delivered in any order.
AnyOrderChunks == {<<>>, <<1>>}

RequestIds == 1..MaxRequestId

TextShort == <<"a", "b", "<", "a", ">">>
TextCat == <<"c", "a", "t", " ", "c", "a", "t">>
TextTagFirst == <<"<", "m", "a", "r", "k", "/", ">">>
TextHelloMark ==
    <<"H", "e", "l", "l", "o", " ", "<", "m", "a", "r", "k", "/", ">", " ",
      "w", "o", "r", "l", "d">>
TextMarkAfterTag == <<"a", "<", "b", " ", "a", ">", "b">>
TextClosedTag == <<"<", "b", ">", "b", " ", "<", "b", "/", ">">>

WordCat == <<"c", "a", "t">>
WordMark == <<"m", "a", "r", "k">>
WordA == <<"a">>
WordB == <<"b">>
WordWorld == <<"w", "o", "r", "l", "d">>

\* Texts and reported words of the session machine.
Texts == {TextShort}
Words == {WordA}

\* Texts and reported words of the aligner's own specification.
AlignTexts ==
    {TextShort, TextCat, TextTagFirst, TextHelloMark, TextMarkAfterTag,
     TextClosedTag}
AlignWords == {WordCat, WordMark, WordA, WordB, WordWorld}

ConnectFailedText == "connect failed"
EventErrorText == "service error"

(* ------------------------------ state --------------------------------- *)

VARIABLES
    m_uspState,             \* UspState
    m_uspConnection,        \* "null" or "conn"
    m_uspCallbacks,         \* "null" or "callbacks"
    isConnected,            \* m_uspConnection->IsConnected()
    elapsed,                \* minutes since m_lastConnectTime
    m_currentRequestId,
    m_currentText,
    m_currentTextIsSsml,
    m_currentTextOffset,
    m_currentErrorCode,
    m_currentErrorMessage,  \* sequence of string pieces
    m_currentReceivedData,  \* sequence of bytes
    pc,                     \* where the caller thread is in Speak
    args,                   \* Speak's parameters
    result,                 \* what the last Speak returned
    dpc,                    \* where the delivery thread is
    md,                     \* locals of OnAudioOutputMetadata
    fired,                  \* FireWordBoundary calls of this request
    sent,                   \* messages sent during this Speak call
    ensureLog,              \* history: what EnsureUspConnection just did
    ensurePre,              \* history: what EnsureUspConnection found
    enteredIn,              \* history: the state this Speak call was made in
    turn,                   \* history: the turn of the outstanding request
    turnChunks,             \* history: chunks between its turn-start and turn-end
    reqError,               \* history: error event delivered to the request
    written,                \* bytes written to the site during this Speak call
    openConnections         \* history: connections opened and not released

vars ==
    <<m_uspState, m_uspConnection, m_uspCallbacks, isConnected, elapsed,
      m_currentRequestId, m_currentText, m_currentTextIsSsml,
      m_currentTextOffset, m_currentErrorCode, m_currentErrorMessage,
      m_currentReceivedData, pc, args, result, dpc, md, fired, sent,
      ensureLog, ensurePre, enteredIn, turn, turnChunks, reqError,
      written, openConnections>>

connVars ==
    <<m_uspConnection, m_uspCallbacks, isConnected, elapsed, openConnections>>
requestVars ==
    <<m_currentRequestId, m_currentText, m_currentTextIsSsml>>
errorVars == <<m_currentErrorCode, m_currentErrorMessage>>
callerVars == <<pc, args, result, sent, ensureLog, ensurePre, enteredIn>>
metaVars == <<dpc, md, fired>>
historyVars == <<turn, turnChunks, reqError, written>>

(* ----------------------------- helpers -------------------------------- *)

Min(S) == CHOOSE x \in S : \A y \in S : x <= y

Digit == <<"0", "1", "2", "3", "4", "5", "6", "7", "8", "9">>

\* CSpxSynthesisHelper::itos: the decimal digits of n.
RECURSIVE itos(_)
itos(n) == IF n < 10 THEN <<Digit[n + 1]>>
           ELSE itos(n \div 10) \o <<Digit[(n % 10) + 1]>>

NoResult ==
    [requestId |-> 0, reason |-> "None", errorCode |-> "NoError",
     audio |-> <<>>, detail |-> <<>>]

NoArgs == [text |-> <<>>, isSsml |-> FALSE, requestId |-> 0]

NoMetadata == [word |-> <<>>, textOffset |-> NPOS, passes |-> 0]

NoError == [code |-> ZeroErrorCode, text |-> ""]

NoConnection == [connection |-> "null", connected |-> FALSE, age |-> 0]

\* The ages the model lets a connection have: new, at the threshold, past it.
Ages == {0} \cup (ReconnectMinutes..(ReconnectMinutes + MaxOverAge))

(* ------------------------- pure functions ----------------------------- *)

\* Find as a backward search (rfind): the last offset at or before pos.
Find_Backward(text, word, pos) ==
    LET n == Len(text)
        m == Len(word)
        hits == {i \in 0..(n - m) :
                     i <= pos /\ \A k \in 1..m : text[i + k] = word[k]}
    IN  IF hits = {} THEN NPOS ELSE CHOOSE i \in hits : \A j \in hits : j <= i

\* Find with the start position ignored: every search starts at offset 0.
Find_FromStart(text, word, pos) ==
    LET n == Len(text)
        m == Len(word)
        hits == {i \in 0..(n - m) : \A k \in 1..m : text[i + k] = word[k]}
    IN  IF hits = {} THEN NPOS ELSE Min(hits)

\* std::wstring::find(word, pos): the first offset at or after pos where
\* word occurs in text, NPOS when there is none.  Offsets count from 0.
Find(text, word, pos) ==
    LET n == Len(text)
        m == Len(word)
        hits == {i \in pos..(n - m) : \A k \in 1..m : text[i + k] = word[k]}
    IN  IF hits = {} THEN NPOS ELSE Min(hits)

\* The backward scan of InSsmlTag: from pos down to beginningPos + 1.
RECURSIVE ScanBack(_, _, _)
ScanBack(pos, ssml, beginningPos) ==
    IF pos > beginningPos
    THEN IF ssml[pos + 1] = ">" THEN FALSE
         ELSE IF ssml[pos + 1] = "<" THEN TRUE
         ELSE ScanBack(pos - 1, ssml, beginningPos)
    ELSE FALSE

InSsmlTag(currentPos, ssml, beginningPos) ==
    IF \/ currentPos < beginningPos
       \/ currentPos >= Len(ssml)
       \/ beginningPos >= Len(ssml)
    THEN FALSE
    ELSE ScanBack(currentPos, ssml, beginningPos)

\* The table with two of its entries exchanged.
UspErrorCodeToCancellationErrorCode_Exchanged(uspErrorCode) ==
    CASE uspErrorCode = "AuthenticationError" -> "AuthenticationFailure"
      [] uspErrorCode = "BadRequest" -> "BadRequest"
      [] uspErrorCode = "ConnectionError" -> "ConnectionFailure"
      [] uspErrorCode = "Forbidden" -> "Forbidden"
      [] uspErrorCode = "RuntimeError" -> "RuntimeError"
      [] uspErrorCode = "ServiceError" -> "ServiceUnavailable"
      [] uspErrorCode = "ServiceUnavailable" -> "ServiceError"
      [] uspErrorCode = "TooManyRequests" -> "TooManyRequests"
      [] OTHER -> "NoError"

UspErrorCodeToCancellationErrorCode(uspErrorCode) ==
    CASE uspErrorCode = "AuthenticationError" -> "AuthenticationFailure"
      [] uspErrorCode = "BadRequest" -> "BadRequest"
      [] uspErrorCode = "ConnectionError" -> "ConnectionFailure"
      [] uspErrorCode = "Forbidden" -> "Forbidden"
      [] uspErrorCode = "RuntimeError" -> "RuntimeError"
      [] uspErrorCode = "ServiceError" -> "ServiceError"
      [] uspErrorCode = "ServiceUnavailable" -> "ServiceUnavailable"
      [] uspErrorCode = "TooManyRequests" -> "TooManyRequests"
      [] OTHER -> "NoError"

\* The text OnError stores: the message, the state and the buffer size.
ErrorMessageOf(errorMessage, uspState, receivedData) ==
    <<errorMessage, ". USP state: ", uspState, ".", " Received audio size: ">>
        \o itos(Len(receivedData)) \o <<"bytes.">>

\* The chunk written over the buffer.
AppendChunk_Overwrite(receivedData, chunk) == chunk

\* The chunk copied to the front of the buffer instead of its end.
AppendChunk_AtFront(receivedData, chunk) == chunk \o receivedData

\* resize + memcpy of OnAudioOutputChunk: the chunk goes after the old bytes.
AppendChunk(receivedData, chunk) == receivedData \o chunk

\* The predicate of m_cv.wait in Speak.
WaitPredicate(uspState) == uspState = "Idle" \/ uspState = "Error"

\* A callback that changes the state and notifies nobody.
NotifyAll_Missing(callerPc) == callerPc

\* m_cv.notify_all(): a caller blocked in the wait is made runnable.
NotifyAll(callerPc) == IF callerPc = "blocked" THEN "woken" ELSE callerPc

\* A connection that is to be replaced is not torn down first.
EnsureDecision_NoTeardown(connection, connected, age) ==
    IF connection = "null" THEN "create"
    ELSE IF ~connected THEN "create"
    ELSE IF age > ReconnectMinutes THEN "create"
    ELSE "keep"

\* The age test made with >= instead of >.
EnsureDecision_AtThreshold(connection, connected, age) ==
    IF connection = "null" THEN "create"
    ELSE IF ~connected THEN "recreate"
    ELSE IF age >= ReconnectMinutes THEN "recreate"
    ELSE "keep"

\* The three tests of EnsureUspConnection, in order.
EnsureDecision(connection, connected, age) ==
    IF connection = "null" THEN "create"
    ELSE IF ~connected THEN "recreate"
    ELSE IF age > ReconnectMinutes THEN "recreate"
    ELSE "keep"

\* The result with the buffer handed out in a canceled result too.
SpeakResult_AudioWhenCanceled(requestId, uspState, errorCode, errorMessage, receivedData) ==
    IF uspState = "Error"
    THEN [requestId |-> requestId, reason |-> "Canceled",
          errorCode |-> UspErrorCodeToCancellationErrorCode(errorCode),
          audio |-> receivedData, detail |-> errorMessage]
    ELSE [requestId |-> requestId, reason |-> "SynthesizingAudioCompleted",
          errorCode |-> "NoError", audio |-> receivedData, detail |-> <<>>]

\* The result Speak builds once the wait is over.
SpeakResult(requestId, uspState, errorCode, errorMessage, receivedData) ==
    IF uspState = "Error"
    THEN [requestId |-> requestId, reason |-> "Canceled",
          errorCode |-> UspErrorCodeToCancellationErrorCode(errorCode),
          audio |-> <<>>, detail |-> errorMessage]
    ELSE [requestId |-> requestId, reason |-> "SynthesizingAudioCompleted",
          errorCode |-> "NoError", audio |-> receivedData, detail |-> <<>>]

(* ------------------------------ Init ---------------------------------- *)

Init ==
    /\ m_uspState = "Idle"
    /\ m_uspConnection = "null"
    /\ m_uspCallbacks = "null"
    /\ isConnected = FALSE
    /\ elapsed = 0
    /\ m_currentRequestId = 0
    /\ m_currentText = <<>>
    /\ m_currentTextIsSsml = FALSE
    /\ m_currentTextOffset = 0
    /\ m_currentErrorCode = ZeroErrorCode
    /\ m_currentErrorMessage = <<>>
    /\ m_currentReceivedData = <<>>
    /\ pc = "idle"
    /\ args = NoArgs
    /\ result = NoResult
    /\ dpc = "ready"
    /\ md = NoMetadata
    /\ fired = <<>>
    /\ sent = <<>>
    /\ ensureLog = <<>>
    /\ ensurePre = NoConnection
    /\ enteredIn = "none"
    /\ turn = "none"
    /\ turnChunks = <<>>
    /\ reqError = NoError
    /\ written = <<>>
    /\ openConnections = 0

\* A request is outstanding: sent and not yet returned.
Outstanding == pc \in {"lock", "blocked", "woken"}

\* The caller is inside Speak and the result is not built yet.
InSpeakCall == pc \in {"ensure", "send", "lock", "blocked", "woken"}

(* --------------------------- caller thread ---------------------------- *)

\* Speak, lines 114-127: the call is made in state Idle or Error.
SpeakEnter(text, isSsml, requestId) ==
    /\ pc = "idle"
    /\ m_uspState \in {"Idle", "Error"}
    /\ pc' = "ensure"
    /\ args' = [text |-> text, isSsml |-> isSsml, requestId |-> requestId]
    /\ enteredIn' = m_uspState
    /\ UNCHANGED <<result, sent, ensureLog, ensurePre>>
    /\ UNCHANGED <<m_uspState, connVars, requestVars, m_currentTextOffset,
                   errorVars, m_currentReceivedData, metaVars, historyVars>>

\* UspTerminate, lines 353-357: a connection, when there is one, is released.
AfterUspTerminate(open, connection) ==
    IF connection # "null" THEN open - 1 ELSE open

\* UspInitialize after a Connect that returned a connection (lines 329-345).
UspInitializeConnected(log, open) ==
    /\ openConnections' = open + 1
    /\ m_uspCallbacks' = "callbacks"
    /\ m_uspConnection' = "conn"
    /\ isConnected' = TRUE
    /\ m_uspState' = "Idle"
    /\ elapsed' = 0
    /\ sent' = Append(sent, "speech.config")
    /\ ensureLog' = log \o <<"UspInitialize", "Connected">>
    /\ UNCHANGED errorVars

\* UspInitialize after a Connect that threw (lines 308-327): OnError runs on
\* the caller thread and no connection is kept.
UspInitializeThrew(log, open) ==
    /\ openConnections' = open
    /\ m_uspCallbacks' = "null"
    /\ m_uspConnection' = "null"
    /\ isConnected' = FALSE
    /\ m_currentErrorCode' = "ConnectionError"
    /\ m_currentErrorMessage' =
           ErrorMessageOf(ConnectFailedText, m_uspState, m_currentReceivedData)
    /\ m_uspState' = "Error"
    /\ ensureLog' = log \o <<"UspInitialize", "ConnectThrew">>
    /\ UNCHANGED <<elapsed, sent>>

\* Speak, line 129: EnsureUspConnection, with UspTerminate and UspInitialize.
EnsureUspConnection(connectOk) ==
    /\ pc = "ensure"
    /\ pc' = "send"
    /\ ensurePre' = [connection |-> m_uspConnection, connected |-> isConnected,
                     age |-> elapsed]
    /\ LET decision == EnsureDecision(m_uspConnection, isConnected, elapsed)
           log == IF decision = "recreate" THEN <<"UspTerminate">> ELSE <<>>
           open == IF decision = "recreate"
                   THEN AfterUspTerminate(openConnections, m_uspConnection)
                   ELSE openConnections
       IN  IF decision = "keep"
           THEN /\ connectOk
                /\ UNCHANGED <<m_uspState, connVars, errorVars, sent, ensureLog>>
           ELSE IF connectOk
                THEN UspInitializeConnected(log, open)
                ELSE UspInitializeThrew(log, open)
    /\ UNCHANGED <<requestVars, m_currentTextOffset, m_currentReceivedData,
                   args, result, enteredIn, metaVars, historyVars>>

\* The payload sent before the context.
RequestMessages_PayloadFirst == <<"ssml", "synthesis.context">>

\* Speak, lines 141-142: UspSendSynthesisContext, then UspSendSsml.
RequestMessages == <<"synthesis.context", "ssml">>

\* Speak, lines 131-142: the reset of the request fields, the move to
\* Sending and the two sends, which are no-ops without a connection.
SpeakSend ==
    /\ pc = "send"
    /\ pc' = "lock"
    /\ m_currentRequestId' = args.requestId
    /\ m_currentText' = args.text
    /\ m_currentTextIsSsml' = args.isSsml
    /\ m_currentTextOffset' = 0
    /\ m_currentErrorCode' = ZeroErrorCode
    /\ m_currentErrorMessage' = <<>>
    /\ m_uspState' = "Sending"
    /\ sent' = IF m_uspConnection # "null"
               THEN sent \o RequestMessages
               ELSE sent
    /\ fired' = <<>>
    /\ turn' = "none"
    /\ turnChunks' = <<>>
    /\ reqError' = NoError
    /\ ensureLog' = <<>>
    /\ ensurePre' = NoConnection
    /\ UNCHANGED <<connVars, m_currentReceivedData, args, result, enteredIn,
                   dpc, md, written>>

\* Speak, lines 144-172: with m_mutex held the predicate is tested; when it
\* holds the result is built and returned, otherwise the caller blocks.
SpeakWait ==
    /\ pc \in {"lock", "woken"}
    /\ IF WaitPredicate(m_uspState)
       THEN /\ pc' = "done"
            /\ result' = SpeakResult(args.requestId, m_uspState,
                                     m_currentErrorCode, m_currentErrorMessage,
                                     m_currentReceivedData)
       ELSE /\ pc' = "blocked"
            /\ UNCHANGED result
    /\ UNCHANGED <<m_uspState, connVars, requestVars, m_currentTextOffset,
                   errorVars, m_currentReceivedData, args, sent, ensureLog,
                   ensurePre, enteredIn, metaVars, historyVars>>

\* Speak, line 172: the result is handed to the caller.
SpeakReturn ==
    /\ pc = "done"
    /\ pc' = "idle"
    /\ args' = NoArgs
    /\ result' = NoResult
    /\ sent' = <<>>
    /\ enteredIn' = "none"
    /\ turn' = "none"
    /\ turnChunks' = <<>>
    /\ reqError' = NoError
    /\ written' = <<>>
    /\ UNCHANGED <<m_uspState, connVars, requestVars, m_currentTextOffset,
                   errorVars, m_currentReceivedData, ensureLog, ensurePre,
                   metaVars>>

\* A condition variable may wake its waiter without a notify.
SpuriousWake ==
    /\ pc = "blocked"
    /\ pc' = "woken"
    /\ UNCHANGED <<m_uspState, connVars, requestVars, m_currentTextOffset,
                   errorVars, m_currentReceivedData, args, result, sent,
                   ensureLog, ensurePre, enteredIn, metaVars, historyVars>>

(* -------------------------- delivery thread --------------------------- *)

\* A delivery layer that lets a turn-start arrive at any time.
ProtocolAllows_StrayTurnStart(event) ==
    CASE event = "TurnStart" -> TRUE
      [] event = "AudioOutputChunk" -> m_uspState = "Receiving"
      [] event = "AudioOutputMetadata" -> m_uspState = "Receiving"
      [] event = "TurnEnd" -> m_uspState = "Receiving"
      [] event = "Error" -> m_uspState \in {"Sending", "Receiving"}

\* The order of events the service keeps for one request (the session
\* machine's transition table): turn-start answers a sent request, chunks,
\* metadata and turn-end come inside the turn, an error ends the request.
ProtocolAllows(event) ==
    CASE event = "TurnStart" -> m_uspState = "Sending"
      [] event = "AudioOutputChunk" -> m_uspState = "Receiving"
      [] event = "AudioOutputMetadata" -> m_uspState = "Receiving"
      [] event = "TurnEnd" -> m_uspState = "Receiving"
      [] event = "Error" -> m_uspState \in {"Sending", "Receiving"}

\* The delivery thread can call a callback: the callbacks are registered,
\* the thread is not inside a callback, and a service message needs a live
\* transport.  env "any" puts no order on the events, env "protocol" keeps
\* the service's order.
CanDeliver(env, event) ==
    /\ m_uspCallbacks # "null"
    /\ dpc = "ready"
    /\ event # "Error" => isConnected
    /\ env = "protocol" => ProtocolAllows(event)

OnTurnStart(env) ==
    /\ CanDeliver(env, "TurnStart")
    /\ m_uspState' = "Receiving"
    /\ m_currentReceivedData' = <<>>
    /\ IF Outstanding
       THEN turn' = "open" /\ turnChunks' = <<>>
       ELSE UNCHANGED <<turn, turnChunks>>
    /\ UNCHANGED <<connVars, requestVars, m_currentTextOffset, errorVars,
                   callerVars, metaVars, reqError, written>>

\* OnAudioOutputChunk, lines 370-375: a chunk that has bytes is written to
\* the site's audio sink, an empty one is not.
SiteWrite(sink, chunk) == IF Len(chunk) > 0 THEN sink \o chunk ELSE sink

\* OnAudioOutputChunk, lines 368-381: the write to the site, then with
\* m_mutex held the append to the buffer.  No other callback can run
\* between the two, and the caller's steps in between change neither.
OnAudioOutputChunk(env, chunk) ==
    /\ CanDeliver(env, "AudioOutputChunk")
    /\ Len(m_currentReceivedData) + Len(chunk) <= MaxAudio
    /\ InSpeakCall => Len(written) + Len(chunk) <= MaxAudio
    /\ written' = IF InSpeakCall THEN SiteWrite(written, chunk) ELSE written
    /\ m_currentReceivedData' = AppendChunk(m_currentReceivedData, chunk)
    /\ IF Outstanding /\ turn = "open"
       THEN turnChunks' = turnChunks \o chunk
       ELSE UNCHANGED turnChunks
    /\ UNCHANGED <<m_uspState, connVars, requestVars, m_currentTextOffset,
                   errorVars, callerVars, metaVars, turn, reqError>>

OnTurnEnd(env) ==
    /\ CanDeliver(env, "TurnEnd")
    /\ m_uspState' = "Idle"
    /\ pc' = NotifyAll(pc)
    /\ IF Outstanding /\ turn = "open"
       THEN turn' = "closed"
       ELSE UNCHANGED turn
    /\ UNCHANGED <<connVars, requestVars, m_currentTextOffset, errorVars,
                   m_currentReceivedData, args, result, sent, ensureLog,
                   ensurePre, enteredIn, metaVars, turnChunks, reqError,
                   written>>

\* OnError with the buffer emptied as the state moves to Error.
OnError_ClearsAudio(env, errorCode, errorMessage) ==
    /\ CanDeliver(env, "Error")
    /\ m_currentErrorCode' = errorCode
    /\ m_currentErrorMessage' =
           ErrorMessageOf(errorMessage, m_uspState, m_currentReceivedData)
    /\ m_uspState' = "Error"
    /\ m_currentReceivedData' = <<>>
    /\ pc' = NotifyAll(pc)
    /\ IF Outstanding /\ m_uspState \in {"Sending", "Receiving"}
       THEN reqError' = [code |-> errorCode, text |-> errorMessage]
       ELSE UNCHANGED reqError
    /\ UNCHANGED <<connVars, requestVars, m_currentTextOffset, args, result,
                   sent, ensureLog, ensurePre, enteredIn, metaVars, turn,
                   turnChunks, written>>

OnError(env, errorCode, errorMessage) ==
    /\ CanDeliver(env, "Error")
    /\ m_currentErrorCode' = errorCode
    /\ m_currentErrorMessage' =
           ErrorMessageOf(errorMessage, m_uspState, m_currentReceivedData)
    /\ m_uspState' = "Error"
    /\ pc' = NotifyAll(pc)
    /\ IF Outstanding /\ m_uspState \in {"Sending", "Receiving"}
       THEN reqError' = [code |-> errorCode, text |-> errorMessage]
       ELSE UNCHANGED reqError
    /\ UNCHANGED <<connVars, requestVars, m_currentTextOffset,
                   m_currentReceivedData, args, result, sent, ensureLog,
                   ensurePre, enteredIn, metaVars, turn, turnChunks,
                   written>>

\* OnAudioOutputMetadata, lines 390-393, for one word-boundary entry: the
\* first search from the cursor.  No lock is taken.
OnAudioOutputMetadata(env, word) ==
    /\ CanDeliver(env, "AudioOutputMetadata")
    /\ dpc' = "aligning"
    /\ md' = [word |-> word,
              textOffset |-> Find(m_currentText, word, m_currentTextOffset),
              passes |-> 0]
    /\ UNCHANGED <<m_uspState, connVars, requestVars, m_currentTextOffset,
                   errorVars, m_currentReceivedData, callerVars, fired,
                   historyVars>>

\* The loop test of line 397.
InTagLoop ==
    /\ m_currentTextIsSsml
    /\ md.textOffset # NPOS
    /\ InSsmlTag(md.textOffset, m_currentText, m_currentTextOffset)

\* One pass of the loop of lines 397-400: the search is made again from
\* m_currentTextOffset.  passes tells an odd pass from an even one.
MetadataRescan ==
    /\ dpc = "aligning"
    /\ InTagLoop
    /\ md' = [md EXCEPT !.textOffset =
                  Find(m_currentText, md.word, m_currentTextOffset),
                        !.passes = 1 - md.passes]
    /\ UNCHANGED <<m_uspState, connVars, requestVars, m_currentTextOffset,
                   errorVars, m_currentReceivedData, callerVars, dpc, fired,
                   historyVars>>

\* Lines 403-410: past the loop, a found offset moves the cursor and fires
\* the word boundary event.
MetadataFinish ==
    /\ dpc = "aligning"
    /\ ~InTagLoop
    /\ IF md.textOffset # NPOS
       THEN /\ m_currentTextOffset' = md.textOffset + Len(md.word)
            /\ fired' = Append(fired, [textOffset |-> md.textOffset,
                                       wordLength |-> Len(md.word)])
       ELSE UNCHANGED <<m_currentTextOffset, fired>>
    /\ dpc' = "ready"
    /\ md' = NoMetadata
    /\ UNCHANGED <<m_uspState, connVars, requestVars, errorVars,
                   m_currentReceivedData, callerVars, historyVars>>

(* ---------------------------- environment ----------------------------- *)

\* Time passes: the connection's age moves to a later one.  The age is read
\* by EnsureUspConnection alone, so the time that passes during a call is
\* counted once the caller is outside Speak again.
Tick ==
    /\ pc = "idle"
    /\ m_uspConnection # "null"
    /\ \E age \in Ages : age > elapsed /\ elapsed' = age
    /\ UNCHANGED <<m_uspState, m_uspConnection, m_uspCallbacks, isConnected,
                   openConnections, requestVars, m_currentTextOffset, errorVars,
                   m_currentReceivedData, callerVars, metaVars, historyVars>>

\* The transport closes: IsConnected() turns false.
Disconnect ==
    /\ m_uspConnection # "null"
    /\ isConnected
    /\ isConnected' = FALSE
    /\ UNCHANGED <<m_uspState, m_uspConnection, m_uspCallbacks, elapsed,
                   openConnections, requestVars, m_currentTextOffset, errorVars,
                   m_currentReceivedData, callerVars, metaVars, historyVars>>

(* -------------------------- specifications ---------------------------- *)

CallerStep ==
    \/ \E connectOk \in BOOLEAN : EnsureUspConnection(connectOk)
    \/ SpeakSend
    \/ SpeakWait
    \/ SpeakReturn

Caller ==
    \/ \E text \in Texts, isSsml \in BOOLEAN, requestId \in RequestIds :
           SpeakEnter(text, isSsml, requestId)
    \/ CallerStep
    \/ SpuriousWake

\* The callbacks that take m_mutex.
SessionEvents(env, chunks, errorCodes) ==
    \/ OnTurnStart(env)
    \/ \E chunk \in chunks : OnAudioOutputChunk(env, chunk)
    \/ OnTurnEnd(env)
    \/ \E errorCode \in errorCodes : OnError(env, errorCode, EventErrorText)

\* The word-boundary callback, one entry at a time.
MetadataEvents(env, words) ==
    \/ \E word \in words : OnAudioOutputMetadata(env, word)
    \/ MetadataRescan
    \/ MetadataFinish

Environment == Tick \/ Disconnect

\* The session with the locked callbacks called in any order, at any time
\* the callbacks are registered.
Next ==
    \/ Caller
    \/ SessionEvents("any", AnyOrderChunks, AnyOrderErrorCodes)
    \/ Environment

Spec == Init /\ [][Next]_vars

\* The session with every callback called in the service's order.
NextProtocol ==
    \/ Caller
    \/ SessionEvents("protocol", Chunks, UspErrorCodes)
    \/ MetadataEvents("protocol", Words)
    \/ Environment

SpecProtocol == Init /\ [][NextProtocol]_vars

\* The caller thread is scheduled: a step of Speak that can be taken is
\* taken.  Nothing makes the caller call Speak, the service send an event
\* or a blocked waiter wake without a notify.
SpecProtocolFair == SpecProtocol /\ WF_vars(CallerStep)

\* The aligner alone: a request for one of the texts is outstanding, its
\* turn has started, and word-boundary entries arrive.
InitAlign ==
    /\ m_uspState = "Receiving"
    /\ m_uspConnection = "conn"
    /\ m_uspCallbacks = "callbacks"
    /\ isConnected = TRUE
    /\ elapsed = 0
    /\ m_currentRequestId = 1
    /\ m_currentText \in AlignTexts
    /\ m_currentTextIsSsml \in BOOLEAN
    /\ m_currentTextOffset = 0
    /\ m_currentErrorCode = ZeroErrorCode
    /\ m_currentErrorMessage = <<>>
    /\ m_currentReceivedData = <<>>
    /\ pc = "blocked"
    /\ args = [text |-> m_currentText, isSsml |-> m_currentTextIsSsml,
               requestId |-> 1]
    /\ result = NoResult
    /\ dpc = "ready"
    /\ md = NoMetadata
    /\ fired = <<>>
    /\ sent = <<"speech.config", "synthesis.context", "ssml">>
    /\ ensureLog = <<>>
    /\ ensurePre = NoConnection
    /\ enteredIn = "Idle"
    /\ turn = "open"
    /\ turnChunks = <<>>
    /\ reqError = NoError
    /\ written = <<>>
    /\ openConnections = 1

NextAlign == MetadataEvents("any", AlignWords)

SpecAlign == InitAlign /\ [][NextAlign]_vars

\* The delivery thread is scheduled: the callback it is in goes on.
SpecAlignFair == SpecAlign /\ WF_vars(MetadataRescan \/ MetadataFinish)

(* ------------------------------ claims -------------------------------- *)

\* C1: every Speak call that returns a completed result returns exactly the
\* bytes of the audio chunks delivered between its turn-start and its
\* turn-end, in the order they came: none lost, doubled or moved, and an
\* empty chunk adds nothing.  Checked with the events in the service's order.
C1_CompletedAudioIsTurnChunks ==
    (pc = "done" /\ result.reason = "SynthesizingAudioCompleted")
        => (turn = "closed" /\ result.audio = turnChunks)

\* A completed result made of the chunks <<1>> and <<2>>, in that order.
C1_Witness ==
    /\ pc = "done"
    /\ result.reason = "SynthesizingAudioCompleted"
    /\ result.audio = <<1, 2>>

\* The Speak call in progress found no connection or replaced one, and
\* Connect threw.
ConnectThrewInCall ==
    /\ pc = "send"
    /\ Len(ensureLog) > 0
    /\ ensureLog[Len(ensureLog)] = "ConnectThrew"

\* C2: when Connect throws inside EnsureUspConnection, the Speak call goes
\* on to return a canceled result with the connection failure code and the
\* text of the failure.
C2_ConnectFailureIsReturned ==
    ConnectThrewInCall
        ~> /\ pc = "done"
           /\ result.reason = "Canceled"
           /\ result.errorCode = "ConnectionFailure"
           /\ Len(result.detail) > 0
           /\ result.detail[1] = ConnectFailedText

\* C3: when an error event was delivered to a request in Sending or
\* Receiving, the Speak call returns a canceled result with the mapped code
\* and the text of that event, whatever was delivered after it.
C3_ErrorEventIsReturned ==
    (pc = "done" /\ reqError # NoError)
        => /\ result.reason = "Canceled"
           /\ result.errorCode = UspErrorCodeToCancellationErrorCode(reqError.code)
           /\ Len(result.detail) > 0
           /\ result.detail[1] = reqError.text

\* The delivery thread has delivered turn-end or an error event to the
\* outstanding request.
TerminalDelivered ==
    /\ Outstanding
    /\ (turn = "closed" \/ reqError # NoError)

\* C4: the wait in Speak ends only in state Idle or Error, and once turn-end
\* or an error event has been delivered to a request sent on a connection,
\* the Speak call returns, also when the event came before the caller took
\* the lock.
C4_WaitEndsOnTerminalState ==
    /\ [][(pc \in {"lock", "blocked", "woken"} /\ pc' = "done")
              => m_uspState \in {"Idle", "Error"}]_vars
    /\ (TerminalDelivered ~> pc = "done")

\* Turn-end was handled before the caller reached the wait.
C4_Witness == pc = "lock" /\ TerminalDelivered /\ turn = "closed"

\* An error event delivered in Sending or Receiving moves the state to
\* Error and leaves the buffer as it was.
C5_ErrorStep ==
    \A errorCode \in UspErrorCodes :
        (/\ m_uspState \in {"Sending", "Receiving"}
         /\ OnError("any", errorCode, EventErrorText))
            => /\ m_uspState' = "Error"
               /\ m_currentReceivedData' = m_currentReceivedData

\* A Speak call made in state Error moves the state to Sending.
C5_SpeakStep ==
    (SpeakSend /\ enteredIn = "Error") => m_uspState' = "Sending"

\* Speak can be called in state Error.
C5_SpeakAccepted ==
    (pc = "idle" /\ m_uspState = "Error")
        => \A text \in Texts, isSsml \in BOOLEAN, requestId \in RequestIds :
               ENABLED SpeakEnter(text, isSsml, requestId)

\* C5: an error event delivered in Sending or Receiving sets the state to
\* Error and keeps the accumulated bytes; the next Speak call is accepted
\* in state Error and moves the state to Sending.
C5_ErrorKeepsAudioAndSpeakRecovers ==
    /\ [][C5_ErrorStep /\ C5_SpeakStep]_vars
    /\ []C5_SpeakAccepted

\* A call made in state Error is in Sending with the bytes of before.
C5_Witness ==
    /\ pc = "lock"
    /\ enteredIn = "Error"
    /\ m_uspState = "Sending"
    /\ m_currentReceivedData # <<>>

\* C6: EnsureUspConnection creates a connection when there is none, tears
\* down and recreates one that is disconnected or older than nine minutes,
\* and does nothing (no teardown, no creation, no message) to a connected
\* one that is not older.
C6_EnsureConnectionCases ==
    pc = "send" =>
        IF ensurePre.connection = "null"
        THEN /\ Len(ensureLog) = 2
             /\ ensureLog[1] = "UspInitialize"
        ELSE IF ~ensurePre.connected \/ ensurePre.age > ReconnectMinutes
        THEN /\ Len(ensureLog) = 3
             /\ ensureLog[1] = "UspTerminate"
             /\ ensureLog[2] = "UspInitialize"
        ELSE /\ ensureLog = <<>>
             /\ sent = <<>>
             /\ m_uspConnection = "conn"
             /\ m_uspCallbacks = "callbacks"
             /\ elapsed = ensurePre.age

\* A connected connection past the threshold was torn down and recreated.
C6_Witness ==
    /\ pc = "send"
    /\ ensurePre.connected
    /\ ensurePre.age > ReconnectMinutes
    /\ ensureLog = <<"UspTerminate", "UspInitialize", "Connected">>

\* The cancellation code the table is to give for each USP code.
C7_Expected(uspErrorCode) ==
    CASE uspErrorCode = "AuthenticationError" -> "AuthenticationFailure"
      [] uspErrorCode = "ConnectionError" -> "ConnectionFailure"
      [] uspErrorCode \in MappedUspErrorCodes -> uspErrorCode
      [] OTHER -> "NoError"

\* C7: each of the eight USP codes maps to its own cancellation code, the
\* eight results differ from one another, every other code maps to NoError,
\* and a canceled result carries the code mapped from its error event.
C7_ErrorCodeMapping ==
    /\ \A c \in UspErrorCodes :
           UspErrorCodeToCancellationErrorCode(c) = C7_Expected(c)
    /\ \A a, b \in MappedUspErrorCodes :
           a # b => UspErrorCodeToCancellationErrorCode(a)
                        # UspErrorCodeToCancellationErrorCode(b)
    /\ \A c \in MappedUspErrorCodes :
           UspErrorCodeToCancellationErrorCode(c) # "NoError"
    /\ (pc = "done" /\ result.reason = "Canceled")
           => result.errorCode = C7_Expected(reqError.code)

\* A canceled result of a too-many-requests error event.
C7_Witness ==
    /\ pc = "done"
    /\ result.reason = "Canceled"
    /\ reqError.code = "TooManyRequests"
    /\ result.errorCode = "TooManyRequests"

\* Offset lies inside a markup tag of text: after a "<" with no ">" between
\* that "<" and the offset.
InsideTag(text, offset) ==
    \E open \in 1..offset :
        /\ text[open] = "<"
        /\ \A between \in (open + 1)..offset : text[between] # ">"

\* C8: in markup mode no word boundary event is fired for an occurrence
\* inside a markup tag.
C8_NoBoundaryInsideTag ==
    m_currentTextIsSsml =>
        \A i \in 1..Len(fired) : ~InsideTag(m_currentText, fired[i].textOffset)

\* C9: the handling of a word-boundary entry always finishes.
C9_AlignmentFinishes == (dpc = "aligning") ~> (dpc = "ready")

\* Word occurs in text at offset.
OccursAt(text, word, offset) ==
    /\ offset + Len(word) <= Len(text)
    /\ \A k \in 1..Len(word) : text[offset + k] = word[k]

\* In plain-text mode the handling of an entry that ends here matched the
\* first occurrence at or after the cursor, fired its offset and length and
\* moved the cursor past it; with no occurrence it changed nothing.
C10_Step ==
    (dpc = "aligning" /\ dpc' = "ready" /\ ~m_currentTextIsSsml) =>
        LET occurrences ==
                {o \in m_currentTextOffset..Len(m_currentText) :
                     OccursAt(m_currentText, md.word, o)}
        IN  IF occurrences = {}
            THEN UNCHANGED <<fired, m_currentTextOffset>>
            ELSE \E o \in occurrences :
                     /\ \A q \in occurrences : o <= q
                     /\ fired' = Append(fired, [textOffset |-> o,
                                                wordLength |-> Len(md.word)])
                     /\ m_currentTextOffset' = o + Len(md.word)

\* No occurrence is matched twice: each fired occurrence starts at or after
\* the end of the one fired before it.
C10_NoRematch ==
    ~m_currentTextIsSsml =>
        \A i \in 1..(Len(fired) - 1) :
            fired[i].textOffset + fired[i].wordLength
                <= fired[i + 1].textOffset

\* "cat cat": the first report of "cat" gives offset 0, the second offset 4.
C10_CatCat ==
    (/\ m_currentText = TextCat
     /\ ~m_currentTextIsSsml
     /\ \A i \in 1..Len(fired) : fired[i].wordLength = Len(WordCat))
        => /\ Len(fired) >= 1 =>
                  fired[1] = [textOffset |-> 0, wordLength |-> 3]
           /\ Len(fired) >= 2 =>
                  fired[2] = [textOffset |-> 4, wordLength |-> 3]

\* C10: in plain-text mode each alignment matches the first occurrence of
\* the word at or after the cursor, fires its offset and length and moves
\* the cursor to offset plus length, so that no occurrence is matched twice.
C10_PlainTextAlignment ==
    /\ [][C10_Step]_vars
    /\ [](C10_NoRematch /\ C10_CatCat)

\* Both occurrences of "cat" in "cat cat" have been matched.
C10_Witness ==
    /\ m_currentText = TextCat
    /\ ~m_currentTextIsSsml
    /\ fired = <<[textOffset |-> 0, wordLength |-> 3],
                 [textOffset |-> 4, wordLength |-> 3]>>
    /\ m_currentTextOffset = 7

\* C11: within one request no step of the word-boundary handling, whether
\* it matches or not, in plain or in markup mode, lowers the text cursor.
C11_CursorNeverDecreases ==
    [][m_currentTextOffset' >= m_currentTextOffset]_vars

\* In markup mode two entries have been matched and the cursor has moved.
C11_Witness ==
    /\ m_currentTextIsSsml
    /\ Len(fired) >= 2
    /\ m_currentTextOffset > fired[2].textOffset

\* This step of EnsureUspConnection established a connection.
ConnectionEstablished ==
    /\ pc = "ensure"
    /\ Len(ensureLog') > 0
    /\ ensureLog'[Len(ensureLog')] = "Connected"

\* How often message occurs in the messages of this call.
TimesSent(message) == Cardinality({i \in 1..Len(sent) : sent[i] = message})

\* The step that establishes a connection sends speech.config on it and
\* nothing else; the only other step that sends is the request's, which
\* sends the context and then the payload, and only on a connection.
C12_Step ==
    /\ ConnectionEstablished => sent' = <<"speech.config">>
    /\ (sent' # sent /\ ~ConnectionEstablished /\ pc' # "idle")
           => /\ pc = "send"
              /\ m_uspConnection # "null"
              /\ sent' = sent \o <<"synthesis.context", "ssml">>
    /\ (pc = "send" /\ pc' = "lock" /\ m_uspConnection # "null")
           => sent' = sent \o <<"synthesis.context", "ssml">>

\* The messages of one call: speech.config at most once and first, the
\* context once and the payload once and right after it when the request
\* was sent on a connection.
C12_Messages ==
    /\ \A i \in 1..Len(sent) : sent[i] = "speech.config" => i = 1
    /\ TimesSent("synthesis.context") <= 1
    /\ TimesSent("ssml") <= 1
    /\ \A i \in 1..Len(sent) :
           sent[i] = "synthesis.context" =>
               i < Len(sent) /\ sent[i + 1] = "ssml"
    /\ \A i \in 1..Len(sent) :
           sent[i] = "ssml" => i > 1 /\ sent[i - 1] = "synthesis.context"
    /\ (Outstanding /\ m_uspConnection # "null")
           => TimesSent("synthesis.context") = 1 /\ TimesSent("ssml") = 1

\* C12: speech.config is sent exactly once on every connection, by the step
\* that establishes it and so before any request message; every request
\* sent on a connection sends synthesis.context once and the payload once,
\* the payload right after the context.
C12_MessageOrder ==
    /\ [][C12_Step]_vars
    /\ []C12_Messages

\* A request sent on a connection an earlier call established: the context
\* and the payload, and no second speech.config.
C12_Witness ==
    /\ pc = "lock"
    /\ sent = <<"synthesis.context", "ssml">>
    /\ m_uspConnection = "conn"

\* C13: the engine owns at most one connection, and a connection is opened
\* only when there is none or the one there was has just been torn down.
C13_AtMostOneConnection ==
    /\ [](/\ openConnections <= 1
          /\ (m_uspConnection = "null") = (openConnections = 0))
    /\ [][ConnectionEstablished
              => (m_uspConnection = "null" \/ ensureLog'[1] = "UspTerminate")]_vars

\* A connection that had closed was torn down and another one opened.
C13_Witness ==
    /\ pc = "send"
    /\ ensurePre.connection = "conn"
    /\ ~ensurePre.connected
    /\ ensureLog = <<"UspTerminate", "UspInitialize", "Connected">>
    /\ openConnections = 1

\* C14: the state is Sending or Receiving only while a Speak call has been
\* entered and has not returned; no event moves the state to Sending or
\* Receiving while no request is outstanding.
C14_BusyOnlyWhileOutstanding ==
    m_uspState \in {"Sending", "Receiving"} => pc # "idle"

\* The steps made with m_mutex held: the callbacks that take it (lines 363,
\* 377, 417 and 426; OnError also when UspInitialize calls it after a failed
\* Connect) and Speak from line 144 on.
HoldsMutex ==
    \/ SpeakWait
    \/ SpeakReturn
    \/ /\ pc = "ensure"
       /\ Len(ensureLog') > 0
       /\ ensureLog'[Len(ensureLog')] = "ConnectThrew"
    \/ \E env \in {"any", "protocol"} :
           SessionEvents(env, Chunks, UspErrorCodes)

\* The shared session state: the state value, the fields of the pending
\* request with the cursor and the error code and detail, and the buffer.
SharedState ==
    <<m_uspState, requestVars, m_currentTextOffset, errorVars,
      m_currentReceivedData>>

\* C15: every step that changes the shared session state, on the caller
\* thread or on the delivery thread, is made with m_mutex held.
C15_MutationsUnderLock ==
    [][SharedState' # SharedState => HoldsMutex]_vars

\* C16: the step of Speak that moves the state to Sending leaves every field
\* of the pending request reset: the identifier, the text and the markup
\* flag are the call's, the cursor is 0, the error code and detail are
\* empty, and the buffer of audio bytes is empty.
C16_SpeakResetsRequest ==
    [][(pc = "send" /\ pc' = "lock")
           => /\ m_uspState' = "Sending"
              /\ m_currentRequestId' = args.requestId
              /\ m_currentText' = args.text
              /\ m_currentTextIsSsml' = args.isSsml
              /\ m_currentTextOffset' = 0
              /\ m_currentErrorCode' = ZeroErrorCode
              /\ m_currentErrorMessage' = <<>>
              /\ m_currentReceivedData' = <<>>]_vars

\* Sequence before is a prefix of sequence after.
IsPrefix(before, after) ==
    /\ Len(before) <= Len(after)
    /\ \A i \in 1..Len(before) : after[i] = before[i]

\* C17: only the turn-start event empties the buffer of audio bytes; every
\* other step (audio chunk, metadata, turn-end, error, the steps of Speak,
\* teardown and creation of the connection) leaves the bytes it held in
\* place, the buffer being as long as before or longer.
C17_OnlyTurnStartClears ==
    [][\/ IsPrefix(m_currentReceivedData, m_currentReceivedData')
       \/ /\ \E env \in {"any", "protocol"} : OnTurnStart(env)
          /\ m_currentReceivedData' = <<>>]_vars

\* A connection was torn down and created again with two bytes in the
\* buffer.
C17_Witness ==
    /\ pc = "send"
    /\ ensureLog = <<"UspTerminate", "UspInitialize", "Connected">>
    /\ Len(m_currentReceivedData) = 2

\* This step tore a connection down or created one: the connection or the
\* callbacks changed, or a connection took the place of a closed or an old
\* one.
ConnectionReplaced ==
    \/ m_uspConnection' # m_uspConnection
    \/ m_uspCallbacks' # m_uspCallbacks
    \/ openConnections' # openConnections
    \/ (isConnected' /\ ~isConnected)
    \/ elapsed' < elapsed

\* Teardown and creation are steps of EnsureUspConnection, taken in state
\* Idle or Error with no request in flight; messages are sent by the steps
\* of Speak before the wait and by no other step.
C18_Step ==
    /\ ConnectionReplaced
           => /\ pc = "ensure"
              /\ m_uspState \in {"Idle", "Error"}
              /\ ~Outstanding
    /\ (sent' # sent /\ pc' # "idle") => pc \in {"ensure", "send"}
    /\ reqError # NoError => (sent' = sent \/ pc' = "idle")

MentionsState(detail, uspState) ==
    \E i \in 1..Len(detail) :
        /\ i > 1
        /\ detail[i - 1] = ". USP state: "
        /\ detail[i] = uspState

\* The detail text gives the number of bytes, in decimal digits.
MentionsSize(detail, size) ==
    \E i \in 1..Len(detail) :
        /\ i > 1
        /\ detail[i - 1] = " Received audio size: "
        /\ i + Len(itos(size)) <= Len(detail)
        /\ SubSeq(detail, i, i + Len(itos(size)) - 1) = itos(size)
        /\ detail[i + Len(itos(size))] = "bytes."

\* The state the outstanding request was in when its error event came, with
\* the events in the service's order: Receiving once its turn has started,
\* Sending before.
StateAtError == IF turn = "open" THEN "Receiving" ELSE "Sending"

\* C19: the detail text of every canceled result includes the state the
\* engine was in when the error was captured, before the move to Error,
\* and the number of audio bytes the request had received by then.
C19_DetailHasStateAndSize ==
    (pc = "done" /\ result.reason = "Canceled")
        => /\ MentionsState(result.detail, StateAtError)
           /\ MentionsSize(result.detail, Len(turnChunks))

\* The part of C19 about the state alone.
C19_DetailHasState ==
    (pc = "done" /\ result.reason = "Canceled")
        => MentionsState(result.detail, StateAtError)

\* The detail text gives the size the buffer had when the error was
\* captured, whatever request its bytes came from.
C19_DetailHasBufferSize ==
    (pc = "done" /\ result.reason = "Canceled")
        => MentionsSize(result.detail, Len(m_currentReceivedData))

\* The step in which Speak leaves the wait and builds its result: canceled
\* with no audio when the state is Error, the buffer keeping its bytes;
\* completed with NoError and the buffer's bytes when the state is Idle.
C20_Step ==
    (pc \in {"lock", "woken"} /\ pc' = "done") =>
        /\ m_uspState \in {"Idle", "Error"}
        /\ m_currentReceivedData' = m_currentReceivedData
        /\ (result'.reason = "Canceled") = (m_uspState = "Error")
        /\ (result'.reason = "SynthesizingAudioCompleted")
               = (m_uspState = "Idle")
        /\ result'.reason = "Canceled" => result'.audio = <<>>
        /\ result'.reason = "SynthesizingAudioCompleted"
               => /\ result'.errorCode = "NoError"
                  /\ result'.audio = m_currentReceivedData

\* C20: a canceled result carries no audio although the bytes accumulated
\* before the error stay in the buffer, and the result is completed, with
\* NoError, exactly when the state seen after the wait is Idle.
C20_CanceledHasNoAudio ==
    /\ [][C20_Step]_vars
    /\ [](result.reason = "Canceled" => result.audio = <<>>)

\* A canceled result without audio while the buffer holds bytes.
C20_Witness ==
    /\ pc = "done"
    /\ result.reason = "Canceled"
    /\ result.audio = <<>>
    /\ m_uspState = "Error"
    /\ m_currentReceivedData # <<>>

\* For a successful request the chunks written to the site's audio sink
\* during the Speak call, concatenated in write order, are the audio bytes
\* of the returned result.  It holds when the events keep the service's
\* order.
C21_SinkEqualsResult ==
    (pc = "done" /\ result.reason = "SynthesizingAudioCompleted")
        => written = result.audio

\* C21, the case of a chunk delivered before the turn-start: a successful
\* request whose result is the chunks of its own turn has had exactly those
\* chunks written to the site's audio sink during the Speak call.
C21_SinkEqualsResultInTurn ==
    (pc = "done" /\ result.reason = "SynthesizingAudioCompleted"
        /\ turn = "closed" /\ result.audio = turnChunks)
        => written = turnChunks

\* A successful request whose audio reached both the sink and the result.
C21_SinkAndResultAgree ==
    /\ pc = "done"
    /\ result.reason = "SynthesizingAudioCompleted"
    /\ Len(result.audio) = MaxAudio
    /\ written = result.audio

====
